---- MODULE Spec2Model ----
(***************************************************************************)
(* A model of the price oracle of prediction-market-agent                  *)
(* (agent/src/price_oracle.py) and of the market collaborator it sweeps    *)
(* (agent/src/contract_interface.py).                                      *)
(*                                                                         *)
(* Python values are records [t, n, den, rep]: t is the Python type, and   *)
(* a number is the exact rational n/den.  A str holds the decimal numeral  *)
(* of n/den, written rep times in a row; den = 1 means the numeral has     *)
(* digits only.  Binary floating-point rounding is not modelled.           *)
(*                                                                         *)
(* A call is cut at its awaits: the provider exchange, get_market_info and *)
(* resolve_market.  What the provider answers, whether a collaborator call *)
(* raises, and what datetime.now() reads are inputs of the step that       *)
(* follows the await.                                                      *)
(***************************************************************************)
EXTENDS Integers, Sequences, FiniteSets, TLC

\* ------------------------------------------------------------------ bounds
\* Longest market_ids list handed to resolve_expired_markets.
MaxIds == 2
\* datetime.now() reads a time from 1 to MaxTime.
MaxTime == 3

\* ------------------------------------------------------------------ values
PyNone == [t |-> "NoneType", n |-> 0, den |-> 1, rep |-> 1]
PyFloat(k) == [t |-> "float", n |-> k, den |-> 1000, rep |-> 1]
PyInt(k) == [t |-> "int", n |-> k, den |-> 1, rep |-> 1]
PyStr(k, d) == [t |-> "str", n |-> k, den |-> d, rep |-> 1]

Return(v) == [kind |-> "return", val |-> v, exc |-> "none"]
Raise(e) == [kind |-> "raise", val |-> PyNone, exc |-> e]
NoResult == [kind |-> "none", val |-> PyNone, exc |-> "none"]

\* float(x): a float stays, a str is parsed, None is a TypeError.
PyFloatOf(x) ==
    CASE x.t = "float" -> Return(x)
      [] x.t = "int" -> Return([t |-> "float", n |-> x.n * 1000, den |-> 1000, rep |-> 1])
      [] x.t = "str" /\ x.rep = 1 ->
            Return([t |-> "float", n |-> (x.n * 1000) \div x.den, den |-> 1000, rep |-> 1])
      [] x.t = "str" -> Raise("ValueError")
      [] OTHER -> Raise("TypeError")

\* x * 100: exact on numbers, repetition on a str, a TypeError on None.
PyTimes100(x) ==
    CASE x.t \in {"float", "int"} ->
            IF x.den % 100 = 0
            THEN Return([x EXCEPT !.den = x.den \div 100])
            ELSE Return([x EXCEPT !.n = x.n * 100])
      [] x.t = "str" -> Return([x EXCEPT !.rep = x.rep * 100])
      [] OTHER -> Raise("TypeError")

\* Integer quotient rounded toward zero.
TruncDiv(a, b) == IF a >= 0 THEN a \div b ELSE -((-a) \div b)

\* int(x): truncation toward zero on a number; a str must be digits only.
PyIntOf(x) ==
    CASE x.t \in {"float", "int"} -> Return(PyInt(TruncDiv(x.n, x.den)))
      [] x.t = "str" /\ x.den = 1 ->
            Return([t |-> "int", n |-> x.n, den |-> 1, rep |-> x.rep])
      [] x.t = "str" -> Raise("ValueError")
      [] OTHER -> Raise("TypeError")

\* Python truthiness of an environment value (None or a str).
Truthy(k) == k # "None" /\ k # ""

\* ----------------------------------------------------------------- symbols
\* A ticker is the sequence of its characters.
BTC == <<"B", "T", "C">>
ETH == <<"E", "T", "H">>
SOL == <<"S", "O", "L">>
btc == <<"b", "t", "c">>
Eth == <<"E", "t", "h">>
TSLA == <<"T", "S", "L", "A">>
Symbols == {BTC, ETH, SOL, btc, Eth, TSLA}

UpperChar(c) ==
    CASE c = "b" -> "B" [] c = "t" -> "T" [] c = "c" -> "C"
      [] c = "h" -> "H" [] c = "e" -> "E" [] c = "u" -> "U"
      [] c = "p" -> "P" [] c = "d" -> "D" [] c = "o" -> "O"
      [] c = "w" -> "W" [] c = "n" -> "N" [] OTHER -> c
\* str.upper()
Upper(s) == [i \in 1..Len(s) |-> UpperChar(s[i])]

KeyValues == {"None", "", "key"}

crypto_mappings ==
    [s \in {BTC, ETH, SOL} |->
        CASE s = BTC -> [coingecko |-> "bitcoin", coinbase |-> "BTC-USD"]
          [] s = ETH -> [coingecko |-> "ethereum", coinbase |-> "ETH-USD"]
          [] s = SOL -> [coingecko |-> "solana", coinbase |-> "SOL-USD"]]

\* A fallback of zero.
FallbackPriceZero == PyFloat(0)

\* The value get_price returns when the chain below it raised.
FallbackPrice == PyFloat(100000)

\* ------------------------------------------------------- provider responses
\* What one HTTP exchange with a provider can give: the transport fails, or
\* the body is JSON that lacks the expected top-level key, lacks an expected
\* nested field, or carries all of them with some JSON value as the price.
JsonPrices ==
    { PyFloat(50000000), PyFloat(-1999),
      PyStr(5, 1), PyStr(1999, 1000), PyNone }
Resp(k, v) == [kind |-> k, price |-> v]
NoResponse == Resp("none", PyNone)
Responses ==
    { Resp("transport", PyNone), Resp("no_top", PyNone), Resp("no_field", PyNone) }
      \cup { Resp("ok", v) : v \in JsonPrices }

Quote(sym, price, source) ==
    [t |-> "dict", symbol |-> sym, price |-> price, source |-> source]

\* ------------------------------------------------------------------- state
Procs == {1, 2}
MarketIds == {1, 2}

VARIABLES
    alpha_vantage_key,  \* PriceOracle.alpha_vantage_key
    coingecko_key,      \* PriceOracle.coingecko_key
    polygon_key,        \* PriceOracle.polygon_key
    markets,            \* the collaborator's markets: id -> [symbol, deadline, resolved]
    op,                 \* per caller: the oracle method it called, or "idle"
    pc,                 \* per caller: where its call is suspended
    symbol,             \* per caller: the symbol being priced
    path,               \* per caller: the branch the dispatch took
    requests,           \* per caller: provider requests issued by the current price call
    response,           \* per caller: the provider response the current price call got
    quote,              \* per caller: what get_crypto_price / get_stock_price gave
    result,             \* per caller: what the called method returned or raised
    market_ids,         \* per sweep: its argument
    idx,                \* per sweep: position of the for loop in market_ids
    market_info,        \* per sweep: the snapshot read in this iteration
    time_read,          \* per sweep: datetime.now() as read in this iteration
    final_price,        \* per sweep: what get_price returned in this iteration
    iter_calls,         \* per sweep: resolve_market calls made in this iteration
    caught,             \* per sweep: the exception this iteration's except clause caught
    reads,              \* per sweep: ids passed to get_market_info so far
    resolve_calls,      \* per sweep: ids passed to resolve_market so far
    failures,           \* per sweep: how many iterations raised so far
    config,             \* the Config instance loaded from the environment
    contract,           \* the object held as MarketActions.contract
    wired,              \* what built MarketActions: "none", "setup_async" or "direct"
    call,               \* the agent-side function in progress and its arguments
    agent_pc,           \* where that function is: "idle" or "done"
    contract_calls,     \* calls the function made on MarketActions.contract
    sent,               \* transactions handed to wallet_provider.send_transaction
    ret                 \* what the function returned or raised

keyVars == <<alpha_vantage_key, coingecko_key, polygon_key>>
envVars == <<markets>>
priceVars == <<symbol, path, requests, response, quote>>
iterVars == <<market_info, time_read, final_price, iter_calls, caught>>
sweepVars == <<market_ids, idx, reads, resolve_calls, failures>>
agentVars == <<config, contract, wired, call, agent_pc, contract_calls, sent, ret>>
oracleVars == <<keyVars, envVars, op, pc, priceVars, result, iterVars, sweepVars>>
vars == <<keyVars, envVars, op, pc, priceVars, result, iterVars, sweepVars, agentVars>>

\* ----------------------------------------------------------------- dispatch
Fetch(source, branch) == [do |-> "fetch", source |-> source, exc |-> "none", path |-> branch]
Fail(e, branch) == [do |-> "raise", source |-> "none", exc |-> e, path |-> branch]

\* A get_stock_price that asks Polygon before Alpha Vantage.
get_stock_price_polygon_first(sym) ==
    IF Truthy(polygon_key) THEN Fetch("polygon", "stock")
    ELSE IF Truthy(alpha_vantage_key) THEN Fetch("alpha_vantage", "stock")
    ELSE Fail("ValueError", "stock")

\* A get_stock_price that asks Polygon whenever Alpha Vantage has no key.
get_stock_price_polygon_fallback(sym) ==
    IF Truthy(alpha_vantage_key) THEN Fetch("alpha_vantage", "stock")
    ELSE Fetch("polygon", "stock")

\* PriceOracle.get_stock_price, up to the adapter it awaits.
get_stock_price(sym) ==
    IF Truthy(alpha_vantage_key) THEN Fetch("alpha_vantage", "stock")
    ELSE IF Truthy(polygon_key) THEN Fetch("polygon", "stock")
    ELSE Fail("ValueError", "stock")

\* A get_crypto_price that tests the key with "is not None".
get_crypto_price_is_not_none(sym) ==
    IF sym \in DOMAIN crypto_mappings
    THEN IF coingecko_key # "None" THEN Fetch("coingecko", "crypto")
         ELSE Fetch("coinbase", "crypto")
    ELSE Fail("ValueError", "crypto")

\* A get_crypto_price that leaves CoinGecko alone while another call's
\* request to it is in flight.
get_crypto_price_balancing(sym) ==
    IF sym \in DOMAIN crypto_mappings
    THEN IF /\ Truthy(coingecko_key)
            /\ ~\E r \in Procs : /\ pc[r] = "http"
                                 /\ requests[r][1].source = "coingecko"
         THEN Fetch("coingecko", "crypto")
         ELSE Fetch("coinbase", "crypto")
    ELSE Fail("ValueError", "crypto")

\* A get_crypto_price that hands an unknown symbol to the equity providers.
get_crypto_price_falling_through(sym) ==
    IF sym \in DOMAIN crypto_mappings
    THEN IF Truthy(coingecko_key) THEN Fetch("coingecko", "crypto")
         ELSE Fetch("coinbase", "crypto")
    ELSE get_stock_price(sym)

\* PriceOracle.get_crypto_price, up to the adapter it awaits.
get_crypto_price(sym) ==
    IF sym \in DOMAIN crypto_mappings
    THEN IF Truthy(coingecko_key) THEN Fetch("coingecko", "crypto")
         ELSE Fetch("coinbase", "crypto")
    ELSE Fail("ValueError", "crypto")

\* A get_price that takes every symbol for a crypto ticker.
get_price_always_crypto(sym) == get_crypto_price(sym)

\* PriceOracle.get_price, up to the method it awaits.
get_price(sym) ==
    IF sym \in DOMAIN crypto_mappings THEN get_crypto_price(sym)
    ELSE get_stock_price(sym)

\* The plan of the method a caller entered.
Plan(method, sym) ==
    CASE method = "get_stock_price" -> get_stock_price(sym)
      [] method = "get_crypto_price" -> get_crypto_price(sym)
      [] OTHER -> get_price(sym)

\* The identifier an adapter puts in its request for a symbol.
RequestFor(source, sym) ==
    [source |-> source,
     ident |-> IF source = "coingecko" THEN crypto_mappings[sym].coingecko
               ELSE IF source = "coinbase" THEN crypto_mappings[sym].coinbase
               ELSE "ticker"]

\* ----------------------------------------------------------------- adapters
\* PriceOracle._fetch_alpha_vantage_stock on a response.
_fetch_alpha_vantage_stock(sym, resp) ==
    CASE resp.kind = "transport" -> Raise("ClientError")
      [] resp.kind = "no_top" -> Raise("ValueError")
      [] resp.kind = "no_field" -> Raise("KeyError")
      [] OTHER ->
            LET f == PyFloatOf(resp.price)
            IN IF f.kind = "raise" THEN f
               ELSE Return(Quote(sym, f.val, "alpha_vantage"))

\* PriceOracle._fetch_coingecko_price on a response.
_fetch_coingecko_price(sym, resp) ==
    CASE resp.kind = "transport" -> Raise("ClientError")
      [] resp.kind = "no_top" -> Raise("ValueError")
      [] resp.kind = "no_field" -> Raise("KeyError")
      [] OTHER -> Return(Quote(sym, resp.price, "coingecko"))

\* A Coinbase adapter that tags its quote as CoinGecko's.
_fetch_coinbase_price_mislabelled(sym, resp) ==
    CASE resp.kind = "transport" -> Raise("ClientError")
      [] resp.kind = "no_top" -> Raise("ValueError")
      [] resp.kind = "no_field" -> Raise("KeyError")
      [] OTHER ->
            LET f == PyFloatOf(resp.price)
            IN IF f.kind = "raise" THEN f
               ELSE Return(Quote(sym, f.val, "coingecko"))

\* PriceOracle._fetch_coinbase_price on a response.
_fetch_coinbase_price(sym, resp) ==
    CASE resp.kind = "transport" -> Raise("ClientError")
      [] resp.kind = "no_top" -> Raise("ValueError")
      [] resp.kind = "no_field" -> Raise("KeyError")
      [] OTHER ->
            LET f == PyFloatOf(resp.price)
            IN IF f.kind = "raise" THEN f
               ELSE Return(Quote(sym, f.val, "coinbase"))

\* A Polygon adapter that indexes "results" without testing for it.
_fetch_polygon_price_unchecked(sym, resp) ==
    CASE resp.kind = "transport" -> Raise("ClientError")
      [] resp.kind = "no_top" -> Raise("KeyError")
      [] resp.kind = "no_field" -> Raise("KeyError")
      [] OTHER -> Return(Quote(sym, resp.price, "polygon"))

\* PriceOracle._fetch_polygon_price on a response.
_fetch_polygon_price(sym, resp) ==
    CASE resp.kind = "transport" -> Raise("ClientError")
      [] resp.kind = "no_top" -> Raise("ValueError")
      [] resp.kind = "no_field" -> Raise("KeyError")
      [] OTHER -> Return(Quote(sym, resp.price, "polygon"))

Adapter(source, sym, resp) ==
    CASE source = "alpha_vantage" -> _fetch_alpha_vantage_stock(sym, resp)
      [] source = "coingecko" -> _fetch_coingecko_price(sym, resp)
      [] source = "coinbase" -> _fetch_coinbase_price(sym, resp)
      [] OTHER -> _fetch_polygon_price(sym, resp)

\* A get_price whose except clause catches ValueError only.
get_price_result_value_errors_only(q) ==
    IF q.kind = "return" THEN Return(q.val.price)
    ELSE IF q.exc = "ValueError" THEN Return(FallbackPrice)
    ELSE q

\* get_price's try/except around the chain: the quote's price, or the
\* fallback when anything below raised.
get_price_result(q) ==
    IF q.kind = "return" THEN Return(q.val.price) ELSE Return(FallbackPrice)

\* What the entered method hands its caller for the chain's outcome q.
MethodResult(method, q) ==
    IF method = "get_price" THEN get_price_result(q) ELSE q

\* ------------------------------------------------------------ collaborator
\* PredictionMarketContract.get_market_info: the market as the chain holds it
\* when the read returns.
get_market_info(m) == markets[m]

\* ------------------------------------------------------------- agent side
\* What an agent-side function gives: a value, or an exception with its text.
Returned(v) == [kind |-> "return", val |-> v]
Raised(e, m) == [kind |-> "raise", exc |-> e, msg |-> m]
NoReturn == [kind |-> "none"]

\* Values of a required setting: the default "" or some text.
StrValues == {"", "set"}
\* CONTRACT_ADDRESS: unset, empty, a placeholder, text that is no address, or
\* an address Web3.to_checksum_address accepts.
AddressValues == {"None", "", "your_contract_address", "not_hex", "0xA0b8"}
\* BASE_SEPOLIA_RPC_URL: unset, or a URL whose node answers or does not.
RpcValues == {"None", "reachable", "unreachable"}

Configs ==
    [cdp_api_key_name : StrValues, cdp_private_key : StrValues,
     cdp_wallet_secret : StrValues, openai_api_key : StrValues,
     glm_api_key : StrValues, contract_address : AddressValues,
     base_sepolia_rpc_url : RpcValues]

\* Config(): every field at its default.
DefaultConfig ==
    [cdp_api_key_name |-> "", cdp_private_key |-> "", cdp_wallet_secret |-> "",
     openai_api_key |-> "", glm_api_key |-> "", contract_address |-> "None",
     base_sepolia_rpc_url |-> "None"]

\* Truthiness of an optional str.
Set(x) == x # "None" /\ x # ""

\* A check that asks for both LLM keys.
validate_required_both_llm(c) ==
    (IF ~Set(c.cdp_api_key_name) THEN <<"CDP_API_KEY_NAME">> ELSE <<>>)
    \o (IF ~Set(c.cdp_private_key) THEN <<"CDP_API_PRIVATE_KEY">> ELSE <<>>)
    \o (IF ~Set(c.cdp_wallet_secret) THEN <<"CDP_WALLET_SECRET">> ELSE <<>>)
    \o (IF ~Set(c.openai_api_key) \/ ~Set(c.glm_api_key)
        THEN <<"OPENAI_API_KEY or GLM_API_KEY">> ELSE <<>>)

\* Config.validate_required
validate_required(c) ==
    (IF ~Set(c.cdp_api_key_name) THEN <<"CDP_API_KEY_NAME">> ELSE <<>>)
    \o (IF ~Set(c.cdp_private_key) THEN <<"CDP_API_PRIVATE_KEY">> ELSE <<>>)
    \o (IF ~Set(c.cdp_wallet_secret) THEN <<"CDP_WALLET_SECRET">> ELSE <<>>)
    \o (IF ~Set(c.openai_api_key) /\ ~Set(c.glm_api_key)
        THEN <<"OPENAI_API_KEY or GLM_API_KEY">> ELSE <<>>)

\* "..." / "your_" / "placeholder" in the address
IsPlaceholder(a) == a = "your_contract_address"
\* Web3.to_checksum_address(a) succeeds
Checksums(a) == a = "0xA0b8"

\* setup._is_valid_ethereum_address
_is_valid_ethereum_address(a) == Set(a) /\ ~IsPlaceholder(a) /\ Checksums(a)

\* setup._validate_config: the missing settings it raises about.
_validate_config(c) ==
    validate_required(c)
    \o (IF Set(c.contract_address) /\ ~_is_valid_ethereum_address(c.contract_address)
        THEN <<"CONTRACT_ADDRESS (must be a valid Ethereum address, not a placeholder)">>
        ELSE <<>>)

\* The object MarketActions holds: nothing, a test double, or a
\* PredictionMarketContract with its fields (present or None).
ContractObject(k, a, w, web3, c) ==
    [kind |-> k, contract_address |-> a, wallet_provider |-> w, web3 |-> web3,
     contract |-> c]
NoContract == ContractObject("none", FALSE, FALSE, FALSE, FALSE)
MockContract == ContractObject("mock", FALSE, FALSE, FALSE, FALSE)

\* PredictionMarketContract.__init__ on (contract_address, rpc_url,
\* wallet_provider), with the ABI artifact on disk or not.
PredictionMarketContract(address, rpc_url, wallet_provider, abi_exists) ==
    IF Set(address) /\ IsPlaceholder(address)
    THEN Raised("ValueError", "Invalid contract address")
    ELSE IF Set(address) /\ ~Checksums(address)
    THEN Raised("ValueError", "Invalid Ethereum address format")
    ELSE IF ~abi_exists
    THEN Raised("FileNotFoundError", "ABI not found")
    ELSE IF rpc_url = "unreachable"
    THEN Raised("ValueError", "Unable to connect to RPC")
    ELSE Returned(ContractObject("real", Set(address), wallet_provider, Set(rpc_url),
                                 Set(rpc_url) /\ Set(address)))

\* ------------------------------------------------------------------- Init
NoSymbol == <<>>
NoInfo == [symbol |-> NoSymbol, deadline |-> 0, resolved |-> FALSE, read |-> FALSE]
Snapshot(m) == [symbol |-> m.symbol, deadline |-> m.deadline,
                resolved |-> m.resolved, read |-> TRUE]

\* The agent side before anything is built or called.
AgentIdle ==
    /\ contract = NoContract
    /\ wired = "none"
    /\ call = [fn |-> "none"]
    /\ agent_pc = "idle"
    /\ contract_calls = <<>>
    /\ sent = <<>>
    /\ ret = NoReturn

\* The oracle after construction, the chain's markets, and no call in progress.
OracleInit ==
    /\ alpha_vantage_key \in KeyValues
    /\ coingecko_key \in KeyValues
    /\ polygon_key \in KeyValues
    /\ markets = [m \in MarketIds |->
                    IF m = 1 THEN [symbol |-> BTC, deadline |-> 2, resolved |-> FALSE]
                    ELSE [symbol |-> TSLA, deadline |-> 1, resolved |-> FALSE]]
    /\ op = [p \in Procs |-> "idle"]
    /\ pc = [p \in Procs |-> "idle"]
    /\ symbol = [p \in Procs |-> NoSymbol]
    /\ path = [p \in Procs |-> "none"]
    /\ requests = [p \in Procs |-> <<>>]
    /\ response = [p \in Procs |-> NoResponse]
    /\ quote = [p \in Procs |-> NoResult]
    /\ result = [p \in Procs |-> NoResult]
    /\ market_ids = [p \in Procs |-> <<>>]
    /\ idx = [p \in Procs |-> 0]
    /\ market_info = [p \in Procs |-> NoInfo]
    /\ time_read = [p \in Procs |-> 0]
    /\ final_price = [p \in Procs |-> PyNone]
    /\ iter_calls = [p \in Procs |-> <<>>]
    /\ caught = [p \in Procs |-> "none"]
    /\ reads = [p \in Procs |-> <<>>]
    /\ resolve_calls = [p \in Procs |-> <<>>]
    /\ failures = [p \in Procs |-> 0]

Init ==
    /\ OracleInit
    /\ config = DefaultConfig
    /\ AgentIdle

\* ------------------------------------------------------------ price calls
\* A caller enters get_price, get_crypto_price or get_stock_price: the method
\* runs to the provider request it awaits, or to its end when it raised
\* before any request.
EnterPrice(p, method, sym) ==
    LET plan == Plan(method, sym)
        q == Raise(plan.exc)
    IN /\ symbol' = [symbol EXCEPT ![p] = sym]
       /\ path' = [path EXCEPT ![p] = plan.path]
       /\ response' = [response EXCEPT ![p] = NoResponse]
       /\ IF plan.do = "fetch"
          THEN /\ requests' = [requests EXCEPT ![p] = <<RequestFor(plan.source, sym)>>]
               /\ quote' = [quote EXCEPT ![p] = NoResult]
               /\ pc' = [pc EXCEPT ![p] = "http"]
               /\ result' = [result EXCEPT ![p] = NoResult]
          ELSE /\ requests' = [requests EXCEPT ![p] = <<>>]
               /\ quote' = [quote EXCEPT ![p] = q]
               /\ pc' = [pc EXCEPT ![p] = "done"]
               /\ result' = [result EXCEPT ![p] = MethodResult(method, q)]

\* A get_price that clears the CoinGecko key once it has chosen its provider.
CallGetPriceClearingKey(p, sym) ==
    /\ op[p] = "idle"
    /\ op' = [op EXCEPT ![p] = "get_price"]
    /\ EnterPrice(p, "get_price", sym)
    /\ coingecko_key' = ""
    /\ UNCHANGED <<agentVars, alpha_vantage_key, polygon_key, envVars, iterVars,
                   sweepVars>>

CallGetPrice(p, sym) ==
    /\ op[p] = "idle"
    /\ op' = [op EXCEPT ![p] = "get_price"]
    /\ EnterPrice(p, "get_price", sym)
    /\ UNCHANGED <<agentVars, keyVars, envVars, iterVars, sweepVars>>

CallGetCryptoPrice(p, sym) ==
    /\ op[p] = "idle"
    /\ op' = [op EXCEPT ![p] = "get_crypto_price"]
    /\ EnterPrice(p, "get_crypto_price", sym)
    /\ UNCHANGED <<agentVars, keyVars, envVars, iterVars, sweepVars>>

CallGetStockPrice(p, sym) ==
    /\ op[p] = "idle"
    /\ op' = [op EXCEPT ![p] = "get_stock_price"]
    /\ EnterPrice(p, "get_stock_price", sym)
    /\ UNCHANGED <<agentVars, keyVars, envVars, iterVars, sweepVars>>

\* ------------------------------------------------------------------ sweep
\* resolve_expired_markets from the price get_price returned to the
\* resolve_market call: the conversion to cents, then the call, or the
\* except clause when the conversion raised.
AfterPrice(p, price) ==
    LET m == market_ids[p][idx[p]]
        product == PyTimes100(price)
        cents == IF product.kind = "raise" THEN product ELSE PyIntOf(product.val)
    IN /\ final_price' = [final_price EXCEPT ![p] = price]
       /\ IF cents.kind = "raise"
          THEN /\ caught' = [caught EXCEPT ![p] = cents.exc]
               /\ failures' = [failures EXCEPT ![p] = @ + 1]
               /\ pc' = [pc EXCEPT ![p] = "loop"]
               /\ UNCHANGED <<iter_calls, resolve_calls>>
          ELSE /\ iter_calls' = [iter_calls EXCEPT ![p] =
                      Append(@, [market_id |-> m, final_price |-> cents.val])]
               /\ resolve_calls' = [resolve_calls EXCEPT ![p] = Append(@, m)]
               /\ pc' = [pc EXCEPT ![p] = "resolve"]
               /\ UNCHANGED <<caught, failures>>

\* The condition with "<=" for "<".
ExpiredInclusive(info, t) == ~info.resolved /\ info.deadline <= t

\* The condition of resolve_expired_markets' if, with the clock as read.
Expired(info, t) == ~info.resolved /\ info.deadline < t

CallResolveExpiredMarkets(p, ids) ==
    /\ op[p] = "idle"
    /\ op' = [op EXCEPT ![p] = "resolve_expired_markets"]
    /\ market_ids' = [market_ids EXCEPT ![p] = ids]
    /\ pc' = [pc EXCEPT ![p] = "loop"]
    /\ UNCHANGED <<agentVars, keyVars, envVars, priceVars, result, iterVars, idx, reads,
                   resolve_calls, failures>>

\* A sweep that goes on to the next id while resolve_market is still awaited.
SweepLoopEager(p) ==
    /\ op[p] = "resolve_expired_markets"
    /\ pc[p] \in {"loop", "resolve"}
    /\ IF idx[p] < Len(market_ids[p])
       THEN /\ idx' = [idx EXCEPT ![p] = @ + 1]
            /\ reads' = [reads EXCEPT ![p] = Append(@, market_ids[p][idx[p] + 1])]
            /\ pc' = [pc EXCEPT ![p] = "info"]
            /\ market_info' = [market_info EXCEPT ![p] = NoInfo]
            /\ time_read' = [time_read EXCEPT ![p] = 0]
            /\ final_price' = [final_price EXCEPT ![p] = PyNone]
            /\ iter_calls' = [iter_calls EXCEPT ![p] = <<>>]
            /\ caught' = [caught EXCEPT ![p] = "none"]
            /\ symbol' = [symbol EXCEPT ![p] = NoSymbol]
            /\ path' = [path EXCEPT ![p] = "none"]
            /\ requests' = [requests EXCEPT ![p] = <<>>]
            /\ response' = [response EXCEPT ![p] = NoResponse]
            /\ quote' = [quote EXCEPT ![p] = NoResult]
            /\ UNCHANGED result
       ELSE /\ pc' = [pc EXCEPT ![p] = "done"]
            /\ result' = [result EXCEPT ![p] = Return(PyNone)]
            /\ UNCHANGED <<idx, reads, iterVars, priceVars>>
    /\ UNCHANGED <<agentVars, keyVars, envVars, op, market_ids, resolve_calls, failures>>

\* The for statement: the next id and its get_market_info call, or the end.
SweepLoop(p) ==
    /\ op[p] = "resolve_expired_markets"
    /\ pc[p] = "loop"
    /\ IF idx[p] < Len(market_ids[p])
       THEN /\ idx' = [idx EXCEPT ![p] = @ + 1]
            /\ reads' = [reads EXCEPT ![p] = Append(@, market_ids[p][idx[p] + 1])]
            /\ pc' = [pc EXCEPT ![p] = "info"]
            /\ market_info' = [market_info EXCEPT ![p] = NoInfo]
            /\ time_read' = [time_read EXCEPT ![p] = 0]
            /\ final_price' = [final_price EXCEPT ![p] = PyNone]
            /\ iter_calls' = [iter_calls EXCEPT ![p] = <<>>]
            /\ caught' = [caught EXCEPT ![p] = "none"]
            /\ symbol' = [symbol EXCEPT ![p] = NoSymbol]
            /\ path' = [path EXCEPT ![p] = "none"]
            /\ requests' = [requests EXCEPT ![p] = <<>>]
            /\ response' = [response EXCEPT ![p] = NoResponse]
            /\ quote' = [quote EXCEPT ![p] = NoResult]
            /\ UNCHANGED result
       ELSE /\ pc' = [pc EXCEPT ![p] = "done"]
            /\ result' = [result EXCEPT ![p] = Return(PyNone)]
            /\ UNCHANGED <<idx, reads, iterVars, priceVars>>
    /\ UNCHANGED <<agentVars, keyVars, envVars, op, market_ids, resolve_calls, failures>>

\* A sweep whose try is outside the loop: the exception ends the sweep.
MarketInfoRaisesAborts(p) ==
    /\ op[p] = "resolve_expired_markets"
    /\ pc[p] = "info"
    /\ caught' = [caught EXCEPT ![p] = "ValueError"]
    /\ failures' = [failures EXCEPT ![p] = @ + 1]
    /\ pc' = [pc EXCEPT ![p] = "done"]
    /\ result' = [result EXCEPT ![p] = Return(PyNone)]
    /\ UNCHANGED <<agentVars, keyVars, envVars, op, priceVars, market_info, time_read,
                   final_price, iter_calls, market_ids, idx, reads, resolve_calls>>

\* get_market_info raises: the except clause, then the next id.
MarketInfoRaises(p) ==
    /\ op[p] = "resolve_expired_markets"
    /\ pc[p] = "info"
    /\ caught' = [caught EXCEPT ![p] = "ValueError"]
    /\ failures' = [failures EXCEPT ![p] = @ + 1]
    /\ pc' = [pc EXCEPT ![p] = "loop"]
    /\ UNCHANGED <<agentVars, keyVars, envVars, op, priceVars, result, market_info, time_read,
                   final_price, iter_calls, market_ids, idx, reads, resolve_calls>>

\* get_market_info returns: the check against the wall clock, which reads
\* now, and for an expired unresolved market get_price up to its provider
\* request, or through to resolve_market when get_price ended without one.
MarketInfoReturns(p, now) ==
    /\ op[p] = "resolve_expired_markets"
    /\ pc[p] = "info"
    /\ LET info == Snapshot(get_market_info(market_ids[p][idx[p]]))
           plan == get_price(info.symbol)
       IN /\ market_info' = [market_info EXCEPT ![p] = info]
          /\ time_read' = [time_read EXCEPT ![p] = IF info.resolved THEN 0 ELSE now]
          /\ IF ~Expired(info, now)
             THEN /\ pc' = [pc EXCEPT ![p] = "loop"]
                  /\ UNCHANGED <<priceVars, final_price, iter_calls, caught,
                                 resolve_calls, failures>>
             ELSE /\ symbol' = [symbol EXCEPT ![p] = info.symbol]
                  /\ path' = [path EXCEPT ![p] = plan.path]
                  /\ IF plan.do = "fetch"
                     THEN /\ requests' = [requests EXCEPT ![p] =
                                 <<RequestFor(plan.source, info.symbol)>>]
                          /\ pc' = [pc EXCEPT ![p] = "http"]
                          /\ UNCHANGED <<response, quote, final_price, iter_calls,
                                         caught, resolve_calls, failures>>
                     ELSE /\ quote' = [quote EXCEPT ![p] = Raise(plan.exc)]
                          /\ AfterPrice(p, get_price_result(Raise(plan.exc)).val)
                          /\ UNCHANGED <<requests, response>>
    /\ UNCHANGED <<agentVars, keyVars, envVars, op, result, market_ids, idx, reads>>

\* The awaited provider answers: the adapter parses, the entered method ends,
\* and a sweep goes on to resolve_market.
AdapterReturns(p, resp) ==
    /\ pc[p] = "http"
    /\ LET q == Adapter(requests[p][Len(requests[p])].source, symbol[p], resp)
       IN /\ response' = [response EXCEPT ![p] = resp]
          /\ quote' = [quote EXCEPT ![p] = q]
          /\ IF op[p] = "resolve_expired_markets"
             THEN /\ AfterPrice(p, get_price_result(q).val)
                  /\ UNCHANGED <<result, market_info, time_read>>
             ELSE /\ result' = [result EXCEPT ![p] = MethodResult(op[p], q)]
                  /\ pc' = [pc EXCEPT ![p] = "done"]
                  /\ UNCHANGED <<iterVars, resolve_calls, failures>>
    /\ UNCHANGED <<agentVars, keyVars, envVars, op, symbol, path, requests, market_ids, idx, reads>>

\* A price call that asks Coinbase when CoinGecko failed.
HttpRespondsRetrying(p, resp) ==
    IF /\ pc[p] = "http"
       /\ requests[p][Len(requests[p])].source = "coingecko"
       /\ Adapter("coingecko", symbol[p], resp).kind = "raise"
    THEN /\ requests' = [requests EXCEPT ![p] = Append(@, RequestFor("coinbase", symbol[p]))]
         /\ response' = [response EXCEPT ![p] = resp]
         /\ UNCHANGED <<agentVars, keyVars, envVars, op, pc, symbol, path, quote, result,
                        iterVars, sweepVars>>
    ELSE AdapterReturns(p, resp)

\* One provider exchange of a price call, from the request to the answer.
HttpResponds(p, resp) == AdapterReturns(p, resp)

\* resolve_market returns: the print, then the next id.
ResolveReturns(p) ==
    /\ op[p] = "resolve_expired_markets"
    /\ pc[p] = "resolve"
    /\ pc' = [pc EXCEPT ![p] = "loop"]
    /\ UNCHANGED <<agentVars, keyVars, envVars, op, priceVars, result, iterVars, sweepVars>>

\* A sweep that lets resolve_market's exception out.
ResolveRaisesPropagates(p) ==
    /\ op[p] = "resolve_expired_markets"
    /\ pc[p] = "resolve"
    /\ caught' = [caught EXCEPT ![p] = "RuntimeError"]
    /\ failures' = [failures EXCEPT ![p] = @ + 1]
    /\ pc' = [pc EXCEPT ![p] = "done"]
    /\ result' = [result EXCEPT ![p] = Raise("RuntimeError")]
    /\ UNCHANGED <<agentVars, keyVars, envVars, op, priceVars, market_info, time_read,
                   final_price, iter_calls, market_ids, idx, reads, resolve_calls>>

\* resolve_market raises: the except clause, then the next id.
ResolveRaises(p) ==
    /\ op[p] = "resolve_expired_markets"
    /\ pc[p] = "resolve"
    /\ caught' = [caught EXCEPT ![p] = "RuntimeError"]
    /\ failures' = [failures EXCEPT ![p] = @ + 1]
    /\ pc' = [pc EXCEPT ![p] = "loop"]
    /\ UNCHANGED <<agentVars, keyVars, envVars, op, priceVars, result, market_info, time_read,
                   final_price, iter_calls, market_ids, idx, reads, resolve_calls>>

\* The caller takes the result; it may call again.
CallReturns(p) ==
    /\ pc[p] = "done"
    /\ op' = [op EXCEPT ![p] = "idle"]
    /\ pc' = [pc EXCEPT ![p] = "idle"]
    /\ symbol' = [symbol EXCEPT ![p] = NoSymbol]
    /\ path' = [path EXCEPT ![p] = "none"]
    /\ requests' = [requests EXCEPT ![p] = <<>>]
    /\ response' = [response EXCEPT ![p] = NoResponse]
    /\ quote' = [quote EXCEPT ![p] = NoResult]
    /\ result' = [result EXCEPT ![p] = NoResult]
    /\ market_ids' = [market_ids EXCEPT ![p] = <<>>]
    /\ idx' = [idx EXCEPT ![p] = 0]
    /\ market_info' = [market_info EXCEPT ![p] = NoInfo]
    /\ time_read' = [time_read EXCEPT ![p] = 0]
    /\ final_price' = [final_price EXCEPT ![p] = PyNone]
    /\ iter_calls' = [iter_calls EXCEPT ![p] = <<>>]
    /\ caught' = [caught EXCEPT ![p] = "none"]
    /\ reads' = [reads EXCEPT ![p] = <<>>]
    /\ resolve_calls' = [resolve_calls EXCEPT ![p] = <<>>]
    /\ failures' = [failures EXCEPT ![p] = 0]
    /\ UNCHANGED <<agentVars, keyVars, envVars>>

\* ------------------------------------------------------------ environment
\* The chain marks a market resolved (a resolve transaction is mined).
ChainResolves(m) ==
    /\ ~markets[m].resolved
    /\ markets' = [markets EXCEPT ![m].resolved = TRUE]
    /\ UNCHANGED <<agentVars, keyVars, op, pc, priceVars, result, iterVars, sweepVars>>

\* --------------------------------------------------- contract and actions
\* Prediction strings, as sequences of characters.
UP == <<"U", "P">>
DOWN == <<"D", "O", "W", "N">>
Predictions ==
    { UP, DOWN, <<"u", "p">>, <<" ", "u", "p", " ">>, <<"d", "o", "w", "n">>,
      <<"U", " ", "P">>, <<"U", "P", "P">>, <<" ">>, <<>> }

\* A prediction compared as typed, without trimming.
NoStrip(s) == s

\* str.strip() at the left and at the right end.
RECURSIVE LStrip(_)
LStrip(s) == IF s # <<>> /\ Head(s) = " " THEN LStrip(Tail(s)) ELSE s
RECURSIVE RStrip(_)
RStrip(s) ==
    IF s # <<>> /\ s[Len(s)] = " " THEN RStrip(SubSeq(s, 1, Len(s) - 1)) ELSE s
Strip(s) == RStrip(LStrip(s))

\* How one call on the collaborator goes: it answers, it raises, or (the
\* real contract) building the transaction or sending it fails.
Outcomes == {"ok", "raises", "build_fails", "send_fails"}

\* An _invoke_contract that does not look for the wallet provider.
_invoke_contract_unguarded(c, function_name, args, env) ==
    LET tx == [to |-> "contract_address", function_name |-> function_name,
               args |-> args]
    IN IF ~c.contract_address
       THEN [out |-> Raised("ValueError", "Contract address not set"), sends |-> <<>>]
       ELSE IF ~c.contract
       THEN [out |-> Raised("AttributeError", "Contract not initialized"),
             sends |-> <<>>]
       ELSE IF env = "build_fails"
       THEN [out |-> Raised("ConnectionError", "node did not answer"), sends |-> <<>>]
       ELSE IF env = "ok"
       THEN [out |-> Returned([transactionHash |-> "0xhash"]), sends |-> <<tx>>]
       ELSE [out |-> Raised("RuntimeError", "Transaction failed"), sends |-> <<tx>>]

\* PredictionMarketContract._invoke_contract: the checks, the transaction it
\* hands to wallet_provider.send_transaction, and what it gives back.
_invoke_contract(c, function_name, args, env) ==
    LET tx == [to |-> "contract_address", function_name |-> function_name,
               args |-> args]
    IN IF ~c.contract_address
       THEN [out |-> Raised("ValueError", "Contract address not set"), sends |-> <<>>]
       ELSE IF ~c.wallet_provider
       THEN [out |-> Raised("AttributeError", "No wallet provider available"),
             sends |-> <<>>]
       ELSE IF ~c.contract
       THEN [out |-> Raised("AttributeError", "Contract not initialized"),
             sends |-> <<>>]
       ELSE IF env = "build_fails"
       THEN [out |-> Raised("ConnectionError", "node did not answer"), sends |-> <<>>]
       ELSE IF env = "ok"
       THEN [out |-> Returned([transactionHash |-> "0xhash"]), sends |-> <<tx>>]
       ELSE [out |-> Raised("RuntimeError", "Transaction failed"), sends |-> <<tx>>]

\* The contract function behind each method of PredictionMarketContract.
FunctionName(method) ==
    CASE method = "create_market" -> "createMarket"
      [] method = "place_bet" -> "placeBet"
      [] method = "claim_winnings" -> "claimWinnings"
      [] OTHER -> "getMarketInfo"

\* What a method of the test double returns.
MockValue(method) ==
    CASE method = "create_market" -> [market_id |-> PyInt(1), tx_hash |-> "0xabc123"]
      [] method = "place_bet" -> [market_id |-> PyInt(1), tx_hash |-> "0xdef456"]
      [] method = "claim_winnings" -> [market_id |-> PyInt(1), tx_hash |-> "0xghi789"]
      [] OTHER -> [market_id |-> PyInt(1), tx_hash |-> "none"]

\* A method of PredictionMarketContract: the dict it builds from what
\* _invoke_contract (or, for get_market_info, the read) gave.
RealMethod(c, method, args, env) ==
    IF method = "get_market_info"
    THEN [out |-> IF ~c.contract_address
                  THEN Raised("ValueError", "Contract address not set")
                  ELSE IF env = "ok"
                  THEN Returned([market_id |-> args[1], tx_hash |-> "none"])
                  ELSE Raised("ConnectionError", "node did not answer"),
          sends |-> <<>>]
    ELSE LET r == _invoke_contract(c, FunctionName(method), args, env)
         IN IF r.out.kind = "raise" THEN r
            ELSE [out |-> Returned([market_id |-> IF method = "create_market"
                                                  THEN PyNone ELSE args[1],
                                    tx_hash |-> r.out.val.transactionHash]),
                  sends |-> r.sends]

\* self.contract.<method>(*args) as MarketActions awaits it: on None the
\* attribute lookup fails and no call is made.
ContractAnswer(c, method, args, env) ==
    CASE c.kind = "none" ->
            [out |-> Raised("AttributeError", "NoneType has no attribute"),
             calls |-> <<>>, sends |-> <<>>]
      [] c.kind = "mock" ->
            [out |-> IF env = "ok" THEN Returned(MockValue(method))
                     ELSE Raised("Exception", "Contract error"),
             calls |-> <<[method |-> method, args |-> args]>>, sends |-> <<>>]
      [] OTHER ->
            LET r == RealMethod(c, method, args, env)
            IN [out |-> r.out, calls |-> <<[method |-> method, args |-> args]>>,
                sends |-> r.sends]

\* The method of the contract each action calls.
Methods == {"create_market", "place_bet", "get_market_info", "claim_winnings"}

\* Arguments with the target price passed in whole dollars.
PreparedDollars(fn, a) ==
    CASE fn = "create_market" ->
            LET dollars == PyIntOf(a.target_price)
            IN IF dollars.kind = "raise" THEN Raised(dollars.exc, "conversion")
               ELSE Returned(<<a.symbol, dollars.val, a.duration_hours>>)
      [] fn = "place_bet" ->
            Returned(<<a.market_id, Upper(Strip(a.prediction)) = UP, a.amount_eth>>)
      [] OTHER -> Returned(<<a.market_id>>)

\* The arguments an action computes for its contract call, or the exception
\* computing them raised.
Prepared(fn, a) ==
    CASE fn = "create_market" ->
            LET product == PyTimes100(a.target_price)
                cents == IF product.kind = "raise" THEN product
                         ELSE PyIntOf(product.val)
            IN IF cents.kind = "raise" THEN Raised(cents.exc, "conversion")
               ELSE Returned(<<a.symbol, cents.val, a.duration_hours>>)
      [] fn = "place_bet" ->
            Returned(<<a.market_id, Upper(Strip(a.prediction)) = UP, a.amount_eth>>)
      [] OTHER -> Returned(<<a.market_id>>)

\* The text an action returns when its try block ended normally.
SuccessText(fn, a, r) ==
    CASE fn = "create_market" ->
            [text |-> "Market created successfully!", market_id |-> r.market_id,
             tx_hash |-> r.tx_hash]
      [] fn = "place_bet" ->
            [text |-> "Bet placed successfully!", market_id |-> a.market_id,
             tx_hash |-> r.tx_hash]
      [] fn = "claim_winnings" ->
            [text |-> "Winnings claimed successfully!", market_id |-> a.market_id,
             tx_hash |-> r.tx_hash]
      [] OTHER ->
            [text |-> "Market", market_id |-> a.market_id, tx_hash |-> r.tx_hash]

\* The text an action's except clause returns.
FailedText(fn, m) ==
    [text |-> CASE fn = "create_market" -> "Failed to create market: "
                [] fn = "place_bet" -> "Failed to place bet: "
                [] fn = "claim_winnings" -> "Failed to claim winnings: "
                [] OTHER -> "Failed to get market info: ",
     error |-> m]

\* Actions without the except clause: the contract's exception gets out.
RunActionUncaught(c, fn, a, env) ==
    LET prep == Prepared(fn, a)
        ans == ContractAnswer(c, fn, prep.val, env)
    IN IF prep.kind = "raise"
       THEN [ret |-> prep, calls |-> <<>>, sends |-> <<>>]
       ELSE [ret |-> IF ans.out.kind = "raise" THEN ans.out
                     ELSE Returned(SuccessText(fn, a, ans.out.val)),
             calls |-> ans.calls, sends |-> ans.sends]

\* MarketActions._create_market / _place_bet / _get_market_info /
\* _claim_winnings on a contract c whose call goes as env says: the calls
\* made, the transactions sent and the string returned.
RunAction(c, fn, a, env) ==
    LET prep == Prepared(fn, a)
        ans == ContractAnswer(c, fn, prep.val, env)
    IN IF prep.kind = "raise"
       THEN [ret |-> Returned(FailedText(fn, prep.msg)), calls |-> <<>>, sends |-> <<>>]
       ELSE [ret |-> IF ans.out.kind = "raise"
                     THEN Returned(FailedText(fn, ans.out.msg))
                     ELSE Returned(SuccessText(fn, a, ans.out.val)),
             calls |-> ans.calls, sends |-> ans.sends]

\* A get_tools that does not look at the contract.
get_tools_unconditional(c) ==
    <<"create_market", "place_bet", "get_market_info", "claim_winnings">>

\* MarketActions.get_tools: the names of the tools it returns.
get_tools(c) ==
    IF c.kind = "none" THEN <<>>
    ELSE <<"create_market", "place_bet", "get_market_info", "claim_winnings">>

\* The arguments of the actions.
ActionArgs(fn) ==
    CASE fn = "create_market" ->
            [symbol : {BTC, TSLA},
             target_price : {PyFloat(50000000), PyFloat(1999), PyFloat(-1999)},
             duration_hours : {PyInt(24)}]
      [] fn = "place_bet" ->
            [market_id : {PyInt(1)}, prediction : Predictions,
             amount_eth : {PyFloat(100)}]
      [] OTHER -> [market_id : {PyInt(1)}]

\* ------------------------------------------------------------ agent steps
\* Config.validate_required is called.
ValidateRequired ==
    /\ agent_pc = "idle"
    /\ call' = [fn |-> "validate_required"]
    /\ ret' = Returned(validate_required(config))
    /\ agent_pc' = "done"
    /\ UNCHANGED <<oracleVars, config, contract, wired, contract_calls, sent>>

\* setup_async: the configuration check, the contract object when the address
\* is valid (built without a wallet provider), and MarketActions around it, or
\* a stand-in without tools when there is no contract.
SetupAsync(abi_exists) ==
    /\ agent_pc = "idle"
    /\ wired = "none"
    /\ call' = [fn |-> "setup_async"]
    /\ agent_pc' = "done"
    /\ LET missing == _validate_config(config)
           built == PredictionMarketContract(config.contract_address,
                        config.base_sepolia_rpc_url, FALSE, abi_exists)
       IN IF missing # <<>>
          THEN /\ ret' = Raised("ValueError", "Missing required environment variables")
               /\ UNCHANGED <<contract, wired>>
          ELSE IF ~_is_valid_ethereum_address(config.contract_address)
          THEN /\ ret' = Returned("executor")
               /\ contract' = NoContract
               /\ wired' = "setup_async"
          ELSE IF built.kind = "raise"
          THEN /\ ret' = built
               /\ UNCHANGED <<contract, wired>>
          ELSE /\ ret' = Returned("executor")
               /\ contract' = built.val
               /\ wired' = "setup_async"
    /\ UNCHANGED <<oracleVars, config, contract_calls, sent>>

\* The objects a caller can hand to MarketActions itself: None, a test
\* double, or a PredictionMarketContract it constructed.
DirectContracts ==
    {NoContract, MockContract}
      \cup { PredictionMarketContract(a, r, w, TRUE).val :
                a \in {"None", "0xA0b8"}, r \in {"None", "reachable"}, w \in BOOLEAN }

\* MarketActions(c), built by a caller.
NewMarketActions(c) ==
    /\ agent_pc = "idle"
    /\ wired = "none"
    /\ contract' = c
    /\ wired' = "direct"
    /\ UNCHANGED <<oracleVars, config, call, agent_pc, contract_calls, sent, ret>>

\* There is a MarketActions instance (setup_async without a contract leaves a
\* stand-in that is none).
HasMarketActions == wired = "direct" \/ (wired = "setup_async" /\ contract.kind # "none")

\* MarketActions.get_tools is called, on the instance or on the stand-in.
GetTools ==
    /\ agent_pc = "idle"
    /\ wired # "none"
    /\ call' = [fn |-> "get_tools"]
    /\ ret' = Returned(get_tools(contract))
    /\ agent_pc' = "done"
    /\ UNCHANGED <<oracleVars, config, contract, wired, contract_calls, sent>>

\* One of the four actions runs, from its call to the string it returns.
CallAction(fn, a, env) ==
    /\ agent_pc = "idle"
    /\ HasMarketActions
    /\ LET r == RunAction(contract, fn, a, env)
       IN /\ call' = [fn |-> fn, args |-> a, env |-> env]
          /\ contract_calls' = r.calls
          /\ sent' = r.sends
          /\ ret' = r.ret
    /\ agent_pc' = "done"
    /\ UNCHANGED <<oracleVars, config, contract, wired>>

\* _invoke_contract is called on a PredictionMarketContract.
CallInvokeContract(function_name, env) ==
    /\ agent_pc = "idle"
    /\ contract.kind = "real"
    /\ LET r == _invoke_contract(contract, function_name, <<PyInt(1)>>, env)
       IN /\ call' = [fn |-> "_invoke_contract", args |-> function_name, env |-> env]
          /\ sent' = r.sends
          /\ ret' = r.out
    /\ agent_pc' = "done"
    /\ UNCHANGED <<oracleVars, config, contract, wired, contract_calls>>

\* The caller takes what the function gave.
AgentReturns ==
    /\ agent_pc = "done"
    /\ agent_pc' = "idle"
    /\ call' = [fn |-> "none"]
    /\ contract_calls' = <<>>
    /\ sent' = <<>>
    /\ ret' = NoReturn
    /\ UNCHANGED <<oracleVars, config, contract, wired>>

\* ------------------------------------------------------------------- Spec
Times == 1..MaxTime
IdLists == UNION { [1..k -> MarketIds] : k \in 0..MaxIds }

\* One caller at a time.
Callers == {1}

Next ==
    \/ \E p \in Callers, s \in Symbols : CallGetPrice(p, s)
    \/ \E p \in Callers, s \in Symbols : CallGetCryptoPrice(p, s)
    \/ \E p \in Callers, s \in Symbols : CallGetStockPrice(p, s)
    \/ \E p \in Callers, ids \in IdLists : CallResolveExpiredMarkets(p, ids)
    \/ \E p \in Callers : SweepLoop(p)
    \/ \E p \in Callers : MarketInfoRaises(p)
    \/ \E p \in Callers, t \in Times : MarketInfoReturns(p, t)
    \/ \E p \in Callers, resp \in Responses : HttpResponds(p, resp)
    \/ \E p \in Callers : ResolveReturns(p)
    \/ \E p \in Callers : ResolveRaises(p)
    \/ \E p \in Callers : CallReturns(p)
    \/ \E m \in MarketIds : ChainResolves(m)

Spec == Init /\ [][Next]_vars

\* Two callers of get_price on the one oracle, as the REST handlers are: the
\* calls interleave at their awaits.
NextConcurrent ==
    \/ \E p \in Procs, s \in Symbols : CallGetPrice(p, s)
    \/ \E p \in Procs, resp \in Responses : HttpResponds(p, resp)
    \/ \E p \in Procs : CallReturns(p)

SpecConcurrent == Init /\ [][NextConcurrent]_vars

\* A step of a call in progress: the coroutine runs on from the loop head, or
\* an awaited get_market_info, provider request or resolve_market returns or
\* raises and the coroutine runs on from there.
CallStep(p) ==
    \/ SweepLoop(p)
    \/ MarketInfoRaises(p)
    \/ \E t \in Times : MarketInfoReturns(p, t)
    \/ \E resp \in Responses : HttpResponds(p, resp)
    \/ ResolveReturns(p)
    \/ ResolveRaises(p)

\* The oracle as a sweep sees it: the sweep reads the keys only through their
\* truthiness, so a key is unset or set.
InitSweep ==
    /\ Init
    /\ alpha_vantage_key \in {"None", "key"}
    /\ coingecko_key \in {"None", "key"}
    /\ polygon_key \in {"None", "key"}

\* The periodic sweeps of one caller, and the chain.
NextSweep ==
    \/ \E p \in Callers, ids \in IdLists : CallResolveExpiredMarkets(p, ids)
    \/ \E p \in Callers : CallStep(p)
    \/ \E p \in Callers : CallReturns(p)
    \/ \E m \in MarketIds : ChainResolves(m)

\* Every awaited call eventually returns or raises, and the event loop then
\* resumes the coroutine that awaits it.
SpecSweepFair ==
    InitSweep /\ [][NextSweep]_vars /\ \A p \in Callers : WF_vars(CallStep(p))

\* Two sweeps on the one oracle and the one collaborator, as two tasks of the
\* event loop: each is suspended at its awaits and the other runs meanwhile.
\* No provider key is set.
InitTwoSweeps ==
    /\ Init
    /\ alpha_vantage_key = "None"
    /\ coingecko_key = "None"
    /\ polygon_key = "None"

NextTwoSweeps ==
    \/ \E p \in Procs, ids \in IdLists : CallResolveExpiredMarkets(p, ids)
    \/ \E p \in Procs : CallStep(p)
    \/ \E p \in Procs : CallReturns(p)
    \/ \E m \in MarketIds : ChainResolves(m)

SpecTwoSweeps == InitTwoSweeps /\ [][NextTwoSweeps]_vars

\* The agent process: configuration from the environment, then setup or a
\* caller's own construction, then calls.
InitAgent ==
    /\ OracleInit
    /\ alpha_vantage_key = "None" /\ coingecko_key = "None" /\ polygon_key = "None"
    /\ config \in Configs
    /\ AgentIdle

NextAgent ==
    \/ ValidateRequired
    \/ \E abi_exists \in BOOLEAN : SetupAsync(abi_exists)
    \/ \E c \in DirectContracts : NewMarketActions(c)
    \/ GetTools
    \/ \E fn \in Methods, env \in Outcomes : \E a \in ActionArgs(fn) :
            CallAction(fn, a, env)
    \/ \E env \in Outcomes : CallInvokeContract("resolveMarket", env)
    \/ AgentReturns

SpecAgent == InitAgent /\ [][NextAgent]_vars

\* ----------------------------------------------------------------- claims
Sweeping(p) == op[p] = "resolve_expired_markets"
Configured(k) == Truthy(k)
InMapping(sym) == sym \in DOMAIN crypto_mappings

\* C1: get_price never propagates an exception: whatever the symbol, the keys
\* and the provider's answer, a finished get_price has returned a value, and
\* when the chain below it raised, that value is the fallback 100.0 (also for
\* the get_price a sweep makes).
C1_GetPriceNeverRaises ==
    \A p \in Procs :
        /\ op[p] = "get_price" => result[p].kind # "raise"
        /\ (op[p] = "get_price" /\ pc[p] = "done") =>
              /\ result[p].kind = "return"
              /\ quote[p].kind = "raise" => result[p].val = FallbackPrice
        /\ (Sweeping(p) /\ quote[p].kind = "raise") => final_price[p] = FallbackPrice

\* A get_price whose provider exchange failed in transport has returned 100.0.
C1_Witness ==
    \E p \in Procs :
        /\ op[p] = "get_price" /\ pc[p] = "done"
        /\ response[p].kind = "transport"
        /\ quote[p] = Raise("ClientError")
        /\ result[p] = Return(FallbackPrice)

\* C2: a price call issues at most one provider request; a failed provider is
\* not followed by a request to another one: the failure leaves
\* get_crypto_price / get_stock_price as raised, and get_price returns the
\* fallback.
C2_OneRequestPerCall ==
    \A p \in Procs :
        /\ Len(requests[p]) <= 1
        /\ (pc[p] = "done" /\ op[p] \in {"get_crypto_price", "get_stock_price"}
              /\ quote[p].kind = "raise") => result[p] = quote[p]
        /\ (pc[p] = "done" /\ op[p] = "get_price" /\ quote[p].kind = "raise") =>
              result[p] = Return(FallbackPrice)

\* get_crypto_price with a CoinGecko key, CoinGecko failing: one request, to
\* CoinGecko, and the call raised.
C2_Witness ==
    \E p \in Procs :
        /\ op[p] = "get_crypto_price" /\ pc[p] = "done"
        /\ Configured(coingecko_key)
        /\ response[p].kind = "transport"
        /\ requests[p] = <<RequestFor("coingecko", symbol[p])>>
        /\ result[p] = Raise("ClientError")

\* C3: for a known crypto ticker the one request goes to CoinGecko exactly
\* when a CoinGecko key is configured and to Coinbase otherwise; without the
\* key a returned quote is tagged coinbase and get_price returns the price of
\* the Coinbase response.
C3_CryptoProviderChoice ==
    \A p \in Procs :
        (op[p] \in {"get_crypto_price", "get_price", "resolve_expired_markets"}
           /\ InMapping(symbol[p])) =>
            /\ Len(requests[p]) = 1
            /\ requests[p][1].source = "coingecko" <=> Configured(coingecko_key)
            /\ requests[p][1].source = "coinbase" <=> ~Configured(coingecko_key)
            /\ (~Configured(coingecko_key) /\ quote[p].kind = "return") =>
                  quote[p].val.source = "coinbase"
            /\ (~Configured(coingecko_key) /\ op[p] = "get_price" /\ pc[p] = "done"
                  /\ quote[p].kind = "return") =>
                  result[p] = Return(PyFloatOf(response[p].price).val)

\* get_price("BTC") with an empty CoinGecko key has returned Coinbase's 50000.0.
C3_Witness ==
    \E p \in Procs :
        /\ op[p] = "get_price" /\ pc[p] = "done" /\ symbol[p] = BTC
        /\ coingecko_key = ""
        /\ requests[p] = <<[source |-> "coinbase", ident |-> "BTC-USD"]>>
        /\ response[p] = Resp("ok", PyFloat(50000000))
        /\ result[p] = Return(PyFloat(50000000))

\* C4: get_stock_price asks Alpha Vantage whenever its key is configured,
\* whatever the Polygon key; asks Polygon only when the Alpha Vantage key is
\* absent and the Polygon key present; and with neither key raises without
\* any provider request.
C4_StockProviderChoice ==
    \A p \in Procs :
        (op[p] = "get_stock_price" /\ pc[p] # "idle") =>
            /\ Configured(alpha_vantage_key) =>
                  requests[p] = <<RequestFor("alpha_vantage", symbol[p])>>
            /\ (~Configured(alpha_vantage_key) /\ Configured(polygon_key)) =>
                  requests[p] = <<RequestFor("polygon", symbol[p])>>
            /\ (\E i \in 1..Len(requests[p]) : requests[p][i].source = "polygon") =>
                  (~Configured(alpha_vantage_key) /\ Configured(polygon_key))
            /\ (~Configured(alpha_vantage_key) /\ ~Configured(polygon_key)) =>
                  /\ requests[p] = <<>>
                  /\ pc[p] = "done"
                  /\ result[p] = Raise("ValueError")

\* get_stock_price with both keys configured is waiting for Alpha Vantage.
C4_Witness ==
    \E p \in Procs :
        /\ op[p] = "get_stock_price" /\ pc[p] = "http"
        /\ Configured(alpha_vantage_key) /\ Configured(polygon_key)
        /\ requests[p] = <<RequestFor("alpha_vantage", symbol[p])>>

\* C5: classification ignores case: get_price takes the crypto path for every
\* ticker that equals a key of the crypto mapping when upper-cased.
C5_CaseInsensitiveClassification ==
    \A p \in Procs :
        (op[p] = "get_price" /\ symbol[p] # NoSymbol /\ InMapping(Upper(symbol[p]))) =>
            /\ path[p] = "crypto"
            /\ \A i \in 1..Len(requests[p]) :
                  requests[p][i].source \in {"coingecko", "coinbase"}

\* C6: for a symbol that is not in the crypto mapping get_price takes the
\* stock path and asks no crypto provider; with neither equity key configured
\* it returns the fallback.
C6_UnknownSymbolsToStocks ==
    \A p \in Procs :
        (op[p] \in {"get_price", "resolve_expired_markets"}
           /\ symbol[p] # NoSymbol /\ ~InMapping(symbol[p])) =>
            /\ path[p] = "stock"
            /\ \A i \in 1..Len(requests[p]) :
                  requests[p][i].source \in {"alpha_vantage", "polygon"}
            /\ (~Configured(alpha_vantage_key) /\ ~Configured(polygon_key)) =>
                  /\ requests[p] = <<>>
                  /\ op[p] = "get_price" => result[p] = Return(FallbackPrice)
                  /\ Sweeping(p) => final_price[p] = FallbackPrice

\* get_price("TSLA") with no equity key has returned 100.0 with no request.
C6_Witness ==
    \E p \in Procs :
        /\ op[p] = "get_price" /\ pc[p] = "done" /\ symbol[p] = TSLA
        /\ alpha_vantage_key = "None" /\ polygon_key = "None"
        /\ path[p] = "stock" /\ requests[p] = <<>>
        /\ result[p] = Return(FallbackPrice)

\* This iteration of the sweep has fetched a price or called resolve_market.
PricedOrResolved(p) ==
    \/ symbol[p] # NoSymbol
    \/ requests[p] # <<>>
    \/ iter_calls[p] # <<>>
    \/ pc[p] \in {"http", "resolve"}

\* C7: the sweep fetches a price and calls resolve_market for an id only when
\* the snapshot it read for that id in this iteration had resolved = false and
\* a deadline strictly before the clock it read; for a resolved market, or one
\* with deadline >= now, it does neither.
C7_ResolveOnlyExpiredUnresolved ==
    \A p \in Procs :
        (Sweeping(p) /\ PricedOrResolved(p)) =>
            /\ market_info[p].read
            /\ market_info[p] = [Snapshot(markets[market_ids[p][idx[p]]])
                                    EXCEPT !.resolved = FALSE]
            /\ market_info[p].deadline < time_read[p]
            /\ \A i \in 1..Len(iter_calls[p]) :
                  iter_calls[p][i].market_id = market_ids[p][idx[p]]

\* The sweep is in resolve_market for a market whose deadline has passed.
C7_Witness ==
    \E p \in Procs :
        /\ Sweeping(p) /\ pc[p] = "resolve"
        /\ ~market_info[p].resolved
        /\ market_info[p].deadline < time_read[p]

\* An iteration of the sweep is over: the loop is at its head, or has ended.
IterationOver(p) == Sweeping(p) /\ pc[p] \in {"loop", "done"} /\ idx[p] >= 1

TruncatedCents(x) == PyInt(TruncDiv(x.n, x.den \div 100))

\* C9: for each unresolved, expired market of the list the sweep calls
\* resolve_market exactly once, with the market's id and the integer
\* price * 100 truncated toward zero, price being what get_price returned.
C9_ResolvesOnceWithCents ==
    \A p \in Procs :
        (IterationOver(p) /\ market_info[p].read
           /\ Expired(market_info[p], time_read[p])) =>
            /\ Len(iter_calls[p]) = 1
            /\ iter_calls[p][1].market_id = market_ids[p][idx[p]]
            /\ final_price[p].t \in {"float", "int"}
            /\ iter_calls[p][1].final_price = TruncatedCents(final_price[p])

\* C10: within one sweep at most one resolve_market call per market id is in
\* flight, and no market id is passed to resolve_market twice, also when the
\* list names an id more than once.
C10_NoMarketResolvedTwice ==
    \A p \in Procs :
        /\ Len(iter_calls[p]) <= 1
        /\ \A i, j \in 1..Len(resolve_calls[p]) :
              i # j => resolve_calls[p][i] # resolve_calls[p][j]

\* s is t with some of its entries left out, the order kept.
SubseqOf(s, t) ==
    \E f \in [1..Len(s) -> 1..Len(t)] :
        /\ \A i \in 1..Len(s) : t[f[i]] = s[i]
        /\ \A i, j \in 1..Len(s) : i < j => f[i] < f[j]

\* C11: the sweep goes through the list in order, one id at a time:
\* get_market_info is called for the next id of the list only from the head
\* of the loop, where the iteration before it is over (no provider request or
\* resolve_market call of it is awaited), resolve_market is called only for
\* the id of the current iteration, and the resolve_market calls made so far
\* are a subsequence of the list as far as it has been read.
C11_SequentialInListOrder ==
    /\ [](\A p \in Procs :
            Sweeping(p) =>
                /\ Len(reads[p]) = idx[p]
                /\ \A i \in 1..idx[p] : reads[p][i] = market_ids[p][i]
                /\ SubseqOf(resolve_calls[p], SubSeq(market_ids[p], 1, idx[p])))
    /\ [][\A p \in Procs :
            /\ Len(reads'[p]) > Len(reads[p]) =>
                  /\ pc[p] = "loop"
                  /\ reads'[p] = Append(reads[p], market_ids[p][Len(reads[p]) + 1])
            /\ Len(resolve_calls'[p]) > Len(resolve_calls[p]) =>
                  /\ pc[p] \in {"info", "http"}
                  /\ idx'[p] = idx[p]
                  /\ resolve_calls'[p] = Append(resolve_calls[p], market_ids[p][idx[p]])]_vars

\* A sweep over <<2, 1>> has ended having resolved market 2, then market 1.
C11_Witness ==
    \E p \in Procs :
        /\ Sweeping(p) /\ pc[p] = "done"
        /\ market_ids[p] = <<2, 1>>
        /\ reads[p] = <<2, 1>>
        /\ resolve_calls[p] = <<2, 1>>

\* The values of the PriceSource enum.
PriceSource == {"alpha_vantage", "coingecko", "coinbase", "polygon"}

\* The exception the adapters raise for "No data found for <symbol>".
NoDataFound == Raise("ValueError")

\* C12: every adapter answers a well-formed response that lacks the expected
\* top-level key with the data-not-found error (the ValueError "No data
\* found"), and not with a KeyError, TypeError or transport error; a price
\* call that got such a response has that error as the outcome of
\* get_crypto_price / get_stock_price.
C12_MissingTopLevelKeyIsNoDataFound ==
    /\ \A src \in PriceSource, sym \in Symbols :
          Adapter(src, sym, Resp("no_top", PyNone)) = NoDataFound
    /\ \A p \in Procs :
          response[p].kind = "no_top" =>
              /\ quote[p] = NoDataFound
              /\ op[p] \in {"get_crypto_price", "get_stock_price"} =>
                    (pc[p] = "done" /\ result[p] = NoDataFound)

\* get_stock_price through Polygon, whose answer had no "results": the call
\* raised the data-not-found error.
C12_Witness ==
    \E p \in Procs :
        /\ op[p] = "get_stock_price" /\ pc[p] = "done"
        /\ requests[p] = <<RequestFor("polygon", symbol[p])>>
        /\ response[p].kind = "no_top"
        /\ result[p] = NoDataFound

\* C13: adapters fail closed with one error: a response that has the
\* top-level key but lacks an expected nested field makes the adapter raise
\* the same data-not-found error as a response without the top-level key.
C13_MissingFieldIsNoDataFound ==
    \A p \in Procs :
        response[p].kind = "no_field" =>
            /\ quote[p].kind = "raise"
            /\ quote[p] = NoDataFound

\* The price a provider's response carries, as the provider's adapter reads
\* it: through float() for Alpha Vantage and Coinbase, as it is otherwise.
PriceRead(source, resp) ==
    IF source \in {"alpha_vantage", "coinbase"} THEN PyFloatOf(resp.price).val
    ELSE resp.price

\* C14: a quote returned by get_crypto_price or get_stock_price (called
\* directly, through get_price or by a sweep) belongs to the one provider
\* exchange of that call: its source is the provider the call's request went
\* to, its price is the price of the response to that request, and its symbol
\* is the symbol asked for.
C14_QuoteMatchesProviderQueried ==
    \A p \in Procs :
        quote[p].kind = "return" =>
            /\ Len(requests[p]) = 1
            /\ response[p].kind = "ok"
            /\ quote[p].val.source = requests[p][1].source
            /\ quote[p].val.price = PriceRead(requests[p][1].source, response[p])
            /\ quote[p].val.symbol = symbol[p]
            /\ (op[p] \in {"get_crypto_price", "get_stock_price"} /\ pc[p] = "done") =>
                  result[p] = quote[p]

\* get_crypto_price("ETH") without a CoinGecko key has returned a quote tagged
\* coinbase whose price is float() of the string Coinbase sent.
C14_Witness ==
    \E p \in Procs :
        /\ op[p] = "get_crypto_price" /\ pc[p] = "done" /\ symbol[p] = ETH
        /\ requests[p] = <<[source |-> "coinbase", ident |-> "ETH-USD"]>>
        /\ response[p] = Resp("ok", PyStr(1999, 1000))
        /\ result[p] = Return(Quote(ETH, PyFloat(1999), "coinbase"))

\* C15: get_price is a function of the symbol, the configured keys and the
\* provider's response: any two get_price calls on the oracle for the same
\* symbol, wherever each stands in the history of calls made before it, took
\* the same path and issued the same request, and two that got the same
\* response returned the same value.
C15_GetPriceDeterministic ==
    \A p, q \in Procs :
        (op[p] = "get_price" /\ op[q] = "get_price" /\ symbol[p] = symbol[q]) =>
            /\ path[p] = path[q]
            /\ requests[p] = requests[q]
            /\ (pc[p] = "done" /\ pc[q] = "done" /\ response[p] = response[q]) =>
                  /\ quote[p] = quote[q]
                  /\ result[p] = result[q]

\* Two get_price("BTC") calls with a CoinGecko key, both answered 50000.0 by
\* CoinGecko, have both returned 50000.0.
C15_Witness ==
    /\ Configured(coingecko_key)
    /\ \A p \in Procs :
          /\ op[p] = "get_price" /\ pc[p] = "done" /\ symbol[p] = BTC
          /\ requests[p] = <<RequestFor("coingecko", BTC)>>
          /\ response[p] = Resp("ok", PyFloat(50000000))
          /\ result[p] = Return(PyFloat(50000000))

\* What get_price(sym) returns when it runs alone and its provider, if it
\* asks one, answers resp.
Alone(sym, resp) ==
    LET plan == get_price(sym)
    IN IF plan.do = "fetch"
       THEN get_price_result(Adapter(plan.source, sym, resp))
       ELSE get_price_result(Raise(plan.exc))

\* The requests get_price(sym) issues when it runs alone.
AloneRequests(sym) ==
    LET plan == get_price(sym)
    IN IF plan.do = "fetch" THEN <<RequestFor(plan.source, sym)>> ELSE <<>>

\* C16: concurrent get_price calls do not interfere: under every interleaving
\* of two callers each call issues the request and returns the value it would
\* alone for its own symbol and its own provider response, whatever the other
\* call does meanwhile, and no step of a call changes the oracle's keys.
C16_ConcurrentCallsDoNotInterfere ==
    /\ [](\A p \in Procs :
            op[p] = "get_price" =>
                /\ requests[p] = AloneRequests(symbol[p])
                /\ pc[p] = "done" => result[p] = Alone(symbol[p], response[p]))
    /\ [][keyVars' = keyVars]_vars

\* Caller 1's get_price("BTC") has returned CoinGecko's 50000.0 while caller
\* 2's get_price("TSLA"), entered before that answer came, still waits for
\* Alpha Vantage.
C16_Witness ==
    /\ op[1] = "get_price" /\ pc[1] = "done" /\ symbol[1] = BTC
    /\ response[1] = Resp("ok", PyFloat(50000000))
    /\ result[1] = Return(PyFloat(50000000))
    /\ requests[1] = <<RequestFor("coingecko", BTC)>>
    /\ op[2] = "get_price" /\ pc[2] = "http" /\ symbol[2] = TSLA
    /\ requests[2] = <<RequestFor("alpha_vantage", TSLA)>>

\* The key a provider's requests need; Coinbase needs none.
KeyOf(source) ==
    CASE source = "alpha_vantage" -> alpha_vantage_key
      [] source = "coingecko" -> coingecko_key
      [] source = "polygon" -> polygon_key
      [] OTHER -> "key"

\* C17: the keys are those the constructor read: no step of any call changes
\* one, and no request of a get_price, get_crypto_price or get_stock_price
\* call (made directly or by a sweep) goes to Alpha Vantage, CoinGecko or
\* Polygon unless that provider's key is configured.
C17_CredentialsFixedAtConstruction ==
    /\ [][/\ alpha_vantage_key' = alpha_vantage_key
           /\ coingecko_key' = coingecko_key
           /\ polygon_key' = polygon_key]_vars
    /\ [](\A p \in Procs : \A i \in 1..Len(requests[p]) :
            /\ requests[p][i].source \in PriceSource
            /\ Configured(KeyOf(requests[p][i].source)))

\* get_stock_price without an Alpha Vantage key and with a Polygon key has
\* finished on its one request, to Polygon.
C17_Witness ==
    \E p \in Procs :
        /\ op[p] = "get_stock_price" /\ pc[p] = "done"
        /\ alpha_vantage_key = "None" /\ polygon_key = "key"
        /\ requests[p] = <<RequestFor("polygon", symbol[p])>>

\* C18: every value get_price returns is a float, also when the provider's
\* response carried null or a string as its price.
C18_GetPriceReturnsFloat ==
    \A p \in Procs :
        (op[p] = "get_price" /\ pc[p] = "done") =>
            /\ result[p].kind = "return"
            /\ result[p].val.t = "float"

\* get_stock_price ended without asking a provider: no equity key is
\* configured. (get_crypto_price always has Coinbase.)
NoProviderConfigured(p) ==
    /\ op[p] = "get_stock_price"
    /\ pc[p] = "done"
    /\ requests[p] = <<>>

\* C19: the three failure classes of get_stock_price / get_crypto_price are
\* three error kinds: a call that failed because no provider is configured
\* raised an error that is neither the data-not-found error nor the transport
\* error, and a call whose transport failed did not raise the data-not-found
\* error.
C19_FailureClassesDistinct ==
    \A p \in Procs :
        /\ NoProviderConfigured(p) =>
              /\ result[p].kind = "raise"
              /\ result[p] # NoDataFound
              /\ result[p] # Raise("ClientError")
        /\ (op[p] \in {"get_stock_price", "get_crypto_price"} /\ pc[p] = "done"
              /\ response[p].kind = "transport") =>
              /\ result[p].kind = "raise"
              /\ result[p] # NoDataFound

\* C20: when every awaited collaborator and provider call eventually returns
\* or raises, a sweep that was started eventually ends, returning normally,
\* with get_market_info called once for each entry of the list, in order.
C20_SweepTerminates ==
    \A p \in Callers :
        Sweeping(p) ~> (/\ Sweeping(p) /\ pc[p] = "done"
                        /\ result[p] = Return(PyNone)
                        /\ idx[p] = Len(market_ids[p])
                        /\ reads[p] = market_ids[p])

\* A sweep over a list of MaxIds ids, every iteration of which raised, has
\* ended with one get_market_info call per entry.
C20_Witness ==
    \E p \in Procs :
        /\ Sweeping(p) /\ pc[p] = "done"
        /\ Len(market_ids[p]) = MaxIds
        /\ failures[p] = MaxIds
        /\ Len(reads[p]) = MaxIds
        /\ reads[p] = market_ids[p]

\* The action fn has run to its end on a contract that is not None.
ActionDone(fn) == agent_pc = "done" /\ call.fn = fn /\ contract.kind # "none"

\* The contract call of the action went through: the test double answered,
\* or the real contract passed its checks (for a read, the address check) and
\* the transaction was sent or the read answered.
ContractCallSucceeded ==
    /\ call.env = "ok"
    /\ contract.kind = "real" =>
          /\ contract.contract_address
          /\ call.fn # "get_market_info" =>
                (contract.wallet_provider /\ contract.contract)

\* C21: _create_market calls contract.create_market exactly once, with the
\* symbol, the target price times 100 truncated to an integer (50000.0 gives
\* 5000000) and the duration; when that call succeeded the returned string is
\* the success message with the market id and the transaction hash the call
\* returned.
C21_CreateMarketCallsOnceWithCents ==
    ActionDone("create_market") =>
        /\ Len(contract_calls) = 1
        /\ contract_calls[1].method = "create_market"
        /\ contract_calls[1].args =
              <<call.args.symbol, TruncatedCents(call.args.target_price),
                call.args.duration_hours>>
        /\ call.args.target_price = PyFloat(50000000) =>
              contract_calls[1].args[2] = PyInt(5000000)
        /\ ContractCallSucceeded =>
              /\ ret.kind = "return"
              /\ ret.val.text = "Market created successfully!"
              /\ contract.kind = "mock" =>
                    (ret.val.market_id = PyInt(1) /\ ret.val.tx_hash = "0xabc123")
              /\ contract.kind = "real" =>
                    (ret.val.market_id = PyNone /\ ret.val.tx_hash = "0xhash")

\* _create_market("BTC", 50000.0, 24) on the test double: one call with
\* 5000000, and the success message with market 1 and 0xabc123.
C21_Witness ==
    /\ ActionDone("create_market") /\ contract.kind = "mock"
    /\ call.args.target_price = PyFloat(50000000)
    /\ contract_calls = <<[method |-> "create_market",
                           args |-> <<BTC, PyInt(5000000), PyInt(24)>>]>>
    /\ ret = Returned([text |-> "Market created successfully!",
                       market_id |-> PyInt(1), tx_hash |-> "0xabc123"])

\* How the string of a failed action starts.
FailedPrefix(fn) ==
    CASE fn = "create_market" -> "Failed to create market: "
      [] fn = "place_bet" -> "Failed to place bet: "
      [] fn = "get_market_info" -> "Failed to get market info: "
      [] OTHER -> "Failed to claim winnings: "

\* The texts of the exceptions a contract call can end with.
ErrorTexts ==
    { "Contract error", "Contract address not set", "No wallet provider available",
      "Contract not initialized", "node did not answer", "Transaction failed",
      "NoneType has no attribute" }

\* C22: no action of MarketActions raises: each of the four returns a string,
\* and when its contract call raised (the test double raised, or the real
\* contract failed a check, could not build or could not send) the string is
\* "Failed to ..." for that action followed by the exception's text, and the
\* contract method was called once, not again.
C22_ActionsNeverRaise ==
    (agent_pc = "done" /\ call.fn \in Methods) =>
        /\ ret.kind = "return"
        /\ Len(contract_calls) <= 1
        /\ (contract.kind = "none" \/ ~ContractCallSucceeded) =>
              /\ ret.val.text = FailedPrefix(call.fn)
              /\ ret.val.error \in ErrorTexts
        /\ (contract.kind = "mock" /\ call.env # "ok") =>
              /\ ret.val.error = "Contract error"
              /\ Len(contract_calls) = 1
              /\ contract_calls[1].method = call.fn
        /\ (contract.kind = "real" /\ call.env = "send_fails"
              /\ call.fn # "get_market_info" /\ sent # <<>>) =>
              ret.val.error = "Transaction failed"

\* _place_bet on a test double whose place_bet raised has returned "Failed to
\* place bet: Contract error" after one call.
C22_Witness ==
    /\ agent_pc = "done" /\ call.fn = "place_bet"
    /\ contract.kind = "mock" /\ call.env = "raises"
    /\ Len(contract_calls) = 1
    /\ ret = Returned([text |-> "Failed to place bet: ", error |-> "Contract error"])

\* C23: get_tools returns the empty list when MarketActions has no contract,
\* and otherwise exactly the four tools create_market, place_bet,
\* get_market_info and claim_winnings, in that order; a non-empty tool list
\* is returned only with a contract.
C23_ToolsOnlyWithContract ==
    (agent_pc = "done" /\ call.fn = "get_tools") =>
        /\ ret.kind = "return"
        /\ contract.kind = "none" => ret.val = <<>>
        /\ contract.kind # "none" =>
              ret.val = <<"create_market", "place_bet", "get_market_info",
                          "claim_winnings">>
        /\ Len(ret.val) \in {0, 4}
        /\ Len(ret.val) > 0 => contract.kind \in {"mock", "real"}

\* get_tools on a MarketActions built by setup_async around a contract has
\* returned four tools.
C23_Witness ==
    /\ agent_pc = "done" /\ call.fn = "get_tools"
    /\ wired = "setup_async" /\ contract.kind = "real"
    /\ Len(ret.val) = 4
    /\ ret.val[1] = "create_market" /\ ret.val[4] = "claim_winnings"

\* The prediction reads "up" in any letter case with blanks around it only.
IsBlank(s) == \A i \in 1..Len(s) : s[i] = " "
SaysUp(s) ==
    \E i \in 1..(Len(s) - 1) :
        /\ s[i] \in {"U", "u"} /\ s[i + 1] \in {"P", "p"}
        /\ IsBlank(SubSeq(s, 1, i - 1))
        /\ IsBlank(SubSeq(s, i + 2, Len(s)))

\* C24: _place_bet calls contract.place_bet exactly once, with
\* (market_id, direction, amount_eth), and direction is True exactly when the
\* prediction, trimmed and upper-cased, is "UP" and False for every other
\* string.
C24_PlaceBetDirection ==
    ActionDone("place_bet") =>
        /\ Len(contract_calls) = 1
        /\ contract_calls[1].method = "place_bet"
        /\ contract_calls[1].args =
              <<call.args.market_id, SaysUp(call.args.prediction),
                call.args.amount_eth>>

\* A bet typed " up " has gone to the contract as direction True.
C24_Witness ==
    /\ ActionDone("place_bet")
    /\ call.args.prediction = <<" ", "u", "p", " ">>
    /\ Len(contract_calls) = 1
    /\ contract_calls[1].args[2] = TRUE
    /\ ret.val.text = "Bet placed successfully!"

\* The items Config.validate_required has to report for the configuration.
MissingItems ==
    {n \in {"CDP_API_KEY_NAME"} : config.cdp_api_key_name = ""}
      \cup {n \in {"CDP_API_PRIVATE_KEY"} : config.cdp_private_key = ""}
      \cup {n \in {"CDP_WALLET_SECRET"} : config.cdp_wallet_secret = ""}
      \cup {n \in {"OPENAI_API_KEY or GLM_API_KEY"} :
                config.openai_api_key = "" /\ config.glm_api_key = ""}

\* C25: Config.validate_required returns the empty list exactly when the
\* three CDP settings are all non-empty and at least one of the two LLM keys
\* is non-empty; otherwise it lists exactly the missing items, one per CDP
\* setting and one combined entry when both LLM keys are empty.
C25_ValidateRequired ==
    (agent_pc = "done" /\ call.fn = "validate_required") =>
        /\ ret.kind = "return"
        /\ ret.val = <<>> <=>
              /\ config.cdp_api_key_name # ""
              /\ config.cdp_private_key # ""
              /\ config.cdp_wallet_secret # ""
              /\ config.openai_api_key # "" \/ config.glm_api_key # ""
        /\ {ret.val[i] : i \in 1..Len(ret.val)} = MissingItems
        /\ Len(ret.val) = Cardinality(MissingItems)

\* validate_required has returned the empty list for a configuration with the
\* CDP settings and the GLM key only.
C25_Witness ==
    /\ agent_pc = "done" /\ call.fn = "validate_required"
    /\ config.openai_api_key = "" /\ config.glm_api_key # ""
    /\ ret.val = <<>>

C27_NoMarketResolvedByBothSweeps ==
    \A p, q \in Procs :
        (p # q /\ Sweeping(p) /\ Sweeping(q)) =>
            \A i \in 1..Len(resolve_calls[p]), j \in 1..Len(resolve_calls[q]) :
                resolve_calls[p][i] # resolve_calls[q][j]

\* C28: get_crypto_price called directly with a symbol that is not a key of
\* the crypto mapping raises (ValueError) without issuing any provider
\* request; it never goes on to an equity provider, whatever keys are set.
C28_UnknownCryptoSymbolRaises ==
    \A p \in Procs :
        (op[p] = "get_crypto_price" /\ symbol[p] \notin {BTC, ETH, SOL}) =>
            /\ pc[p] = "done"
            /\ result[p] = Raise("ValueError")
            /\ requests[p] = <<>>
            /\ response[p] = NoResponse
            /\ path[p] # "stock"

\* get_crypto_price("TSLA") has raised with an Alpha Vantage key set and no
\* request made.
C28_Witness ==
    \E p \in Procs :
        /\ op[p] = "get_crypto_price" /\ pc[p] = "done"
        /\ symbol[p] = TSLA
        /\ Configured(alpha_vantage_key)
        /\ requests[p] = <<>>
        /\ result[p].kind = "raise"

\* _invoke_contract has been called and has ended.
InvokeDone == agent_pc = "done" /\ call.fn = "_invoke_contract"

\* C29: _invoke_contract hands no transaction to
\* wallet_provider.send_transaction unless the contract address, the wallet
\* provider and the web3 contract instance are all present; when one is
\* missing it raises without sending, and the error is that of the first
\* missing one in the order address, wallet provider, contract.
C29_InvokeContractGuards ==
    /\ sent # <<>> =>
          /\ contract.kind = "real"
          /\ contract.contract_address
          /\ contract.wallet_provider
          /\ contract.contract
    /\ InvokeDone =>
          /\ ~contract.contract_address =>
                ret = Raised("ValueError", "Contract address not set")
          /\ (contract.contract_address /\ ~contract.wallet_provider) =>
                ret = Raised("AttributeError", "No wallet provider available")
          /\ (contract.contract_address /\ contract.wallet_provider
                 /\ ~contract.contract) =>
                ret = Raised("AttributeError", "Contract not initialized")
          /\ (contract.contract_address /\ contract.wallet_provider
                 /\ contract.contract /\ call.env \in {"ok", "send_fails"}) =>
                Len(sent) = 1

\* _invoke_contract on a contract with an address but neither wallet provider
\* nor web3 contract has raised about the wallet provider, and nothing was
\* sent.
C29_Witness ==
    /\ InvokeDone
    /\ contract.contract_address
    /\ ~contract.wallet_provider /\ ~contract.contract
    /\ ret.kind = "raise" /\ ret.msg = "No wallet provider available"
    /\ sent = <<>>

\* C30: when setup_async built the agent from a valid contract address and a
\* reachable RPC URL, a create_market, place_bet or claim_winnings tool call
\* whose transaction nothing else stops reaches
\* wallet_provider.send_transaction.
C30_SetupContractCanSend ==
    (/\ wired = "setup_async"
     /\ agent_pc = "done"
     /\ call.fn \in {"create_market", "place_bet", "claim_winnings"}
     /\ call.env = "ok"
     /\ _is_valid_ethereum_address(config.contract_address)
     /\ config.base_sepolia_rpc_url = "reachable") =>
        /\ Len(sent) = 1
        /\ ret.val.text # FailedPrefix(call.fn)

====
